---- MODULE Spec2Model ----
(***************************************************************************)
(* The crawl orchestrator of src/crawler/web_crawler.py (class WebCrawler):*)
(* crawl(), crawl_parallel() and the helpers they call, as a state machine.*)
(*                                                                         *)
(* Python values are modelled with the part of their dynamic type the code *)
(* depends on: a value stored in a results list is either a list (what     *)
(* extract_content returns: the list of video entries of the page) or a    *)
(* dict (a failure record); .get() and item assignment by string key raise *)
(* on a list, and `key in value` is a membership test on both.             *)
(* Python list objects live in `heap`, so that two names bound to the same *)
(* list (crawl_result['results'] = self.results) see the same elements.    *)
(***************************************************************************)
EXTENDS Integers, Sequences, FiniteSets, TLC

VARIABLES
    crawlers,   \* the WebCrawler objects: crawlers[1] is the caller's instance
    files,      \* the local paths that exist in image_dir and video_dir
    heap,       \* the Python list objects that hold result records
    calls,      \* the activations of crawl(): calls[0] on the caller's thread,
                \* calls[i], i >= 1, the i-th future of crawl_parallel's pool
    api,        \* the caller's thread: what it called and what it got back
    par         \* the local variables of crawl_parallel()

vars == <<crawlers, files, heap, calls, api, par>>

----------------------------------------------------------------------------
(* Bounds of the model *)

MaxCalls == 2          \* top-level calls made on the caller's instance
MaxWorkersBound == 2   \* largest max_workers argument of crawl_parallel
MaxUrls == 3           \* longest list of second-layer URLs handed to the pool
MaxPagesBound == 2     \* largest config['max_pages']
MaxDepthBound == 1     \* largest depth argument
MaxSegments == 2       \* most segments an m3u8 manifest lists

----------------------------------------------------------------------------
(* URLs.  A URL string is kept in the parsed form urlparse() gives it:     *)
(* scheme, netloc and path (sequences of characters) and fragment.         *)

None == "None"

Url(path, fragment) ==
    [scheme |-> "http", netloc |-> <<"a">>, path |-> path, fragment |-> fragment]

NoUrl == [scheme |-> "", netloc |-> <<>>, path |-> <<>>, fragment |-> ""]

\* 'scheme://netloc' + path has this many characters more than 'scheme://netloc'
PathLen(u) == Len(u.path)

EndsWithSlash(u) == Len(u.path) > 0 /\ u.path[Len(u.path)] = "/"

RECURSIVE DirOf(_)
\* a path up to and including its last "/"
DirOf(path) ==
    IF path = <<>> THEN <<"/">>
    ELSE IF path[Len(path)] = "/" THEN path
    ELSE DirOf(SubSeq(path, 1, Len(path) - 1))

RECURSIVE CollapseSlashes(_)
\* a path without its empty segments: every run of "/" becomes one "/"
CollapseSlashes(path) ==
    IF Len(path) < 2 THEN path
    ELSE IF path[1] = "/" /\ path[2] = "/" THEN CollapseSlashes(Tail(path))
    ELSE <<path[1]>> \o CollapseSlashes(Tail(path))

\* urllib's urljoin(base_url, url): a url with its own netloc is kept (an
\* absolute URL unchanged); an empty path takes the base's path; an absolute
\* path replaces the base's; a relative path is appended to the base's
\* directory and the empty segments of the result are dropped.  (Paths of
\* the model have no "." and ".." segments.)
urljoin(base_url, url) ==
    IF url.scheme # "" /\ url.netloc # <<>> THEN url
    ELSE IF url.netloc # <<>> THEN [url EXCEPT !.scheme = base_url.scheme]
    ELSE [base_url EXCEPT
             !.fragment = url.fragment,
             !.path = IF url.path = <<>> THEN base_url.path
                      ELSE IF url.path[1] = "/" THEN url.path
                      ELSE CollapseSlashes(DirOf(base_url.path) \o url.path)]

\* normalize_url: join, drop the fragment, strip ONE trailing slash unless the
\* path is the bare root.  The string returned, scheme://netloc/path, parses
\* back to the record given here.
normalize_url(url, base_url) ==
    LET joined == urljoin(base_url, url)
        rebuilt == [joined EXCEPT !.fragment = ""]
    IN  IF EndsWithSlash(rebuilt) /\ PathLen(rebuilt) > 1
        THEN [rebuilt EXCEPT !.path = SubSeq(rebuilt.path, 1, Len(rebuilt.path) - 1)]
        ELSE rebuilt

----------------------------------------------------------------------------
(* Records stored in results lists *)

\* what extract_content returns: the list `videos`; its elements are the
\* {'url', 'type', 'title', 'path'} dicts of the videos found
VideoList(videos) ==
    [kind |-> "list", keys |-> {}, url |-> NoUrl, status_code |-> 0,
     items |-> videos, links |-> <<>>, ai_analysis |-> None]

\* the failed_page dict of crawl()
FailedPage(url, status_code) ==
    [kind |-> "dict", keys |-> {"url", "status_code", "error"}, url |-> url,
     status_code |-> status_code, items |-> <<>>, links |-> <<>>,
     ai_analysis |-> None]

\* the {'url', 'error'} dict crawl_parallel records for a future that raised
FutureError(url) ==
    [kind |-> "dict", keys |-> {"url", "error"}, url |-> url,
     status_code |-> 0, items |-> <<>>, links |-> <<>>, ai_analysis |-> None]

\* Python: `key in value`.  The elements of a video list are dicts, never the
\* string looked for, so the test is false on every list.
HasKey(value, key) == value.kind = "dict" /\ key \in value.keys

\* Python: value.get(...) and value[key] = ... work on a dict only
IsDict(value) == value.kind = "dict"

----------------------------------------------------------------------------
(* Media files.  A media URL is kept as its text and the extension          *)
(* os.path.splitext gives its path; a local path as directory, file name    *)
(* and extension.                                                           *)

Mp4 == <<".", "m", "p", "4">>
M3u8 == <<".", "m", "3", "u", "8">>
Jpg == <<".", "j", "p", "g">>
Jpeg2000 == <<".", "j", "p", "e", "g", "2", "0", "0", "0">>

MediaUrl(name, ext) == [name |-> name, ext |-> ext]

\* hashlib.md5(url.encode()).hexdigest(): one name per URL text (two URLs of
\* the model never collide)
md5(media_url) == <<media_url.name, media_url.ext>>

LocalPath(dir, name, ext) == [dir |-> dir, name |-> name, ext |-> ext]

\* the value None where a local path is expected
NoPath == LocalPath("", <<>>, <<>>)

\* the extension of the local file: the URL's, the default when it has none
\* or one of more than 5 characters
FileExt(media_url, default) ==
    IF media_url.ext = <<>> \/ Len(media_url.ext) > 5 THEN default
    ELSE media_url.ext

\* download_image: (path returned, files afterwards, whether the network was
\* used).  requests.get reads the whole body before the file is opened, so a
\* transport error of any kind leaves no file.
download_image(fs, img_url, net) ==
    LET img_path == LocalPath("images", md5(img_url), FileExt(img_url, Jpg))
    IN  IF img_path \in fs
        THEN [path |-> img_path, files |-> fs, network |-> FALSE]
        ELSE IF net = "ok"
        THEN [path |-> img_path, files |-> fs \cup {img_path}, network |-> TRUE]
        ELSE [path |-> NoPath, files |-> fs, network |-> TRUE]

\* download_video, lines 724-767: the direct download.  The body is streamed
\* into the file: a stream that breaks leaves the file and returns None.
\* `written` is what the call wrote to the file, `complete` whether it
\* transferred the whole body.
DirectVideo(fs, video_path, net) ==
    IF video_path \in fs
    THEN [path |-> video_path, files |-> fs, network |-> FALSE,
          written |-> <<>>, complete |-> FALSE]
    ELSE CASE net = "ok" ->
                [path |-> video_path, files |-> fs \cup {video_path}, network |-> TRUE,
                 written |-> << <<1, "whole">> >>, complete |-> TRUE]
           [] net = "broken" ->
                [path |-> NoPath, files |-> fs \cup {video_path}, network |-> TRUE,
                 written |-> << <<1, "part">> >>, complete |-> FALSE]
           [] OTHER ->
                [path |-> NoPath, files |-> fs, network |-> TRUE,
                 written |-> <<>>, complete |-> FALSE]

\* an m3u8 manifest as the server gives it: an error (ok is FALSE), or the
\* list of its segments, each with the way its download ends
ManifestRefused == [ok |-> FALSE, segments |-> <<>>]

NoSegments == [ok |-> TRUE, segments |-> <<>>]

RECURSIVE WriteSegmentsStopAtFailure(_, _, _)
WriteSegmentsStopAtFailure(segments, i, written) ==
    IF i > Len(segments) THEN written
    ELSE CASE segments[i] = "ok" ->
                WriteSegmentsStopAtFailure(segments, i + 1, Append(written, <<i, "whole">>))
           [] segments[i] = "broken" -> Append(written, <<i, "part">>)
           [] OTHER -> written

RECURSIVE WriteSegments(_, _, _)
\* download_video, lines 703-714: the loop over ts_urls from the i-th on.  A
\* segment that is refused writes nothing, one whose stream breaks has written
\* its first chunks; in both cases the loop goes on with the next segment.
WriteSegments(segments, i, written) ==
    IF i > Len(segments) THEN written
    ELSE WriteSegments(segments, i + 1,
             CASE segments[i] = "ok" -> Append(written, <<i, "whole">>)
               [] segments[i] = "broken" -> Append(written, <<i, "part">>)
               [] OTHER -> written)

\* download_video: a URL that contains '.m3u8' is saved as .mp4 from its
\* segments (a segment that fails is skipped); with no manifest or no segment
\* the direct download is tried; every exception gives None
download_video(fs, video_url, manifest, net) ==
    IF video_url.ext = M3u8
    THEN LET video_path == LocalPath("videos", md5(video_url), Mp4)
         IN  IF video_path \in fs
             THEN [path |-> video_path, files |-> fs, network |-> FALSE,
                   written |-> <<>>, complete |-> FALSE]
             ELSE IF manifest.ok /\ manifest.segments # <<>>
             THEN [path |-> video_path, files |-> fs \cup {video_path},
                   network |-> TRUE,
                   written |-> WriteSegments(manifest.segments, 1, <<>>),
                   complete |-> FALSE]
             ELSE [DirectVideo(fs, video_path, net) EXCEPT !.network = TRUE]
    ELSE DirectVideo(fs, LocalPath("videos", md5(video_url), FileExt(video_url, Mp4)),
                     net)

----------------------------------------------------------------------------
(* Inputs *)

\* seed URLs a caller may pass: one in canonical form, one with a trailing slash
SeedUrls == { Url(<<"/", "p">>, ""), Url(<<"/", "p", "/">>, "") }

Depths == (0 - 1) .. MaxDepthBound

\* the <video> tags of a page: none, or one with a direct .mp4 file
VideoLists == { <<>>, << MediaUrl("v", Mp4) >> }

\* the site: a seed page carries anchors to three pages, which carry none
Anchors(url) ==
    IF url \in SeedUrls
    THEN << Url(<<"/", "q">>, ""), Url(<<"/", "r">>, ""), Url(<<"/", "s">>, "") >>
    ELSE <<>>

\* the markup fetch_page returns, as far as the code may look at it
Page(videos, anchors) == [videos |-> videos, anchors |-> anchors]

\* how the download of a file ends: complete, refused (connection error,
\* timeout, HTTP error status), broken while the body is streamed
DownloadOutcomes == {"ok", "refused", "broken"}

\* what the download of an m3u8 manifest gives: an error, or a manifest of
\* 0 to MaxSegments segments
ManifestOutcomes ==
    {ManifestRefused} \cup
    { [ok |-> TRUE, segments |-> segments] :
      segments \in UNION { [1 .. n -> DownloadOutcomes] : n \in 0 .. MaxSegments } }

\* what ai_model.analyze does when it is called
AnalyzeOutcomes == {"ok", "raises"}

\* how a page load ends: a page, an empty body, an HTTP 4xx/5xx answer, a
\* transport error (DNS, refused, timeout)
FetchOutcomes == {"ok", "empty", "http_error", "transport"}

\* how webdriver.Chrome(...) ends: a session, or an exception
InitOutcomes == {"ok", "fail"}

\* the configuration keys crawl(), fetch_page(), extract_content() and
\* is_valid_url() read; download_videos and the domain lists have their
\* defaults, True and []
Configs ==
    [use_selenium : BOOLEAN, follow_links : BOOLEAN,
     max_pages : (0 - 1) .. MaxPagesBound, download_videos : {TRUE},
     allow_domains : {<<>>}, deny_domains : {<<>>}]

\* the outcomes that matter for a page: a manifest is requested for an m3u8
\* URL only, a file for a page with a video only, and analyze is called with
\* a model only
ManifestsFor(videos) ==
    IF \E i \in DOMAIN videos : videos[i].ext = M3u8 THEN ManifestOutcomes
    ELSE {NoSegments}

DownloadsFor(videos) == IF videos = <<>> THEN {"ok"} ELSE DownloadOutcomes

AnalyzeFor(use_ai, ai_model) ==
    IF use_ai /\ ai_model THEN AnalyzeOutcomes ELSE {"ok"}

----------------------------------------------------------------------------
(* WebCrawler objects *)

\* __init__: state of a new instance; results_ref is the new list self.results
NewCrawler(config, results_ref) ==
    [config |-> config, visited_urls |-> {}, url_queue |-> <<>>,
     results |-> results_ref, driver |-> None,
     \* history, not program state: webdriver.Chrome(...) has raised on this
     \* instance; it was called again after that
     init_failed |-> FALSE, retried |-> FALSE]

InitializeSeleniumKeepsConfig(cr, outcome) ==
    IF cr.driver = None /\ cr.config.use_selenium
    THEN IF outcome = "ok"
         THEN [cr EXCEPT !.driver = "session", !.retried = @ \/ cr.init_failed]
         ELSE [cr EXCEPT !.init_failed = TRUE, !.retried = @ \/ cr.init_failed]
    ELSE cr

\* initialize_selenium: creates the session once; on an exception degrades the
\* configuration to requests
initialize_selenium(cr, outcome) ==
    IF cr.driver = None /\ cr.config.use_selenium
    THEN IF outcome = "ok"
         THEN [cr EXCEPT !.driver = "session", !.retried = @ \/ cr.init_failed]
         ELSE [cr EXCEPT !.config.use_selenium = FALSE,
                         !.init_failed = TRUE, !.retried = @ \/ cr.init_failed]
    ELSE cr

\* close_selenium: quit() the session and forget it; when quit() raises the
\* assignment driver = None is skipped and the exception is logged
close_selenium(cr, quit_ok) ==
    IF cr.driver # None /\ quit_ok THEN [cr EXCEPT !.driver = None] ELSE cr

\* _fetch_with_requests: (status_code, content is non-empty)
fetch_with_requests(net) ==
    CASE net = "ok" -> [status_code |-> 200, content |-> TRUE]
      [] net = "empty" -> [status_code |-> 200, content |-> FALSE]
      [] net = "http_error" -> [status_code |-> 404, content |-> FALSE]
      [] OTHER -> [status_code |-> 500, content |-> FALSE]

\* the selenium branch of fetch_page: driver.get() raises on a transport error
\* only; the page of an HTTP error answer is read like any other and returned
\* with status 200
fetch_with_selenium(net) ==
    CASE net = "ok" -> [status_code |-> 200, content |-> TRUE]
      [] net = "empty" -> [status_code |-> 200, content |-> FALSE]
      [] net = "http_error" -> [status_code |-> 200, content |-> TRUE]
      [] OTHER -> [status_code |-> 500, content |-> FALSE]

\* fetch_page: the instance after the call and the tuple returned
fetch_page(cr, init, net) ==
    IF cr.config.use_selenium
    THEN LET cr1 == IF cr.driver = None THEN initialize_selenium(cr, init) ELSE cr
         IN  IF cr1.driver = None
             THEN [crawler |-> cr1, got |-> fetch_with_requests(net)]
             ELSE [crawler |-> cr1, got |-> fetch_with_selenium(net)]
    ELSE [crawler |-> cr, got |-> fetch_with_requests(net)]

RECURSIVE ExtractVideoTags(_, _, _, _, _, _)
\* extract_content, lines 299-331: one entry per <video> tag with a new URL;
\* its 'path' is what download_video returns, None when download_videos is off
ExtractVideoTags(config, video_tags, videos, fs, manifest, net) ==
    IF video_tags = <<>> THEN [videos |-> videos, files |-> fs]
    ELSE LET video_url == Head(video_tags)
             got == download_video(fs, video_url, manifest, net)
         IN  IF \E i \in DOMAIN videos : videos[i].url = video_url
             THEN ExtractVideoTags(config, Tail(video_tags), videos, fs, manifest, net)
             ELSE IF config.download_videos
             THEN ExtractVideoTags(config, Tail(video_tags),
                      Append(videos, [url |-> video_url, path |-> got.path]),
                      got.files, manifest, net)
             ELSE ExtractVideoTags(config, Tail(video_tags),
                      Append(videos, [url |-> video_url, path |-> NoPath]),
                      fs, manifest, net)

\* extract_content: returns the list `videos`, whatever else the page holds
\* (its anchors are not looked at), and the files it has written
extract_content(cr, url, html_content, fs, manifest, net) ==
    LET found == ExtractVideoTags(cr.config, html_content.videos, <<>>, fs,
                                  manifest, net)
    IN  [content |-> VideoList(found.videos), files |-> found.files]

\* filter_with_ai with a model supplied: content.get('text') inside the try
\* and content['ai_analysis'] = ... inside the except handler both need a
\* dict; on a list the handler itself raises and the exception leaves the
\* function
FilterWithAiRaises(content) == ~IsDict(content)

\* filter_with_ai: on a dict, sets content['ai_analysis'] to skipped (no
\* model), error (analyze raised) or completed, and returns the dict
filter_with_ai(content, ai_model, analyze) ==
    IF FilterWithAiRaises(content) THEN [raised |-> TRUE, content |-> content]
    ELSE [raised |-> FALSE,
          content |-> [content EXCEPT
              !.keys = @ \cup {"ai_analysis"},
              !.ai_analysis = IF ~ai_model THEN "skipped"
                              ELSE IF analyze = "raises" THEN "error"
                              ELSE "completed"]]

LoopConditionNoMaxPages(cr) == cr.url_queue # <<>>

\* the condition of the while loop of crawl()
LoopCondition(cr) ==
    cr.url_queue # <<>> /\ Cardinality(cr.visited_urls) < cr.config.max_pages

PopTaskKeepsQueue(url_queue) == url_queue

\* line 863: what self.url_queue.pop(0) leaves in the queue
PopTask(url_queue) == Tail(url_queue)

SkipTaskNoDepth(cr, current_url, current_depth, depth) ==
    current_url \in cr.visited_urls

\* the check after the pop: the task is skipped
SkipTask(cr, current_url, current_depth, depth) ==
    current_url \in cr.visited_urls \/ current_depth > depth

FetchSucceededStatusOnly(status_code, html_content) == status_code = 200

\* line 881: the fetch counts as a success
FetchSucceeded(status_code, html_content) == status_code = 200 /\ html_content

\* the condition under which links are enqueued
FollowLinks(cr, current_depth, depth) ==
    cr.config.follow_links /\ current_depth < depth

CrawlCatchesLookupOnly(exc) == exc \in {"IndexError"}

\* `except Exception` of crawl(): the exceptions it catches
CrawlCatches(exc) == exc \in {"AttributeError", "TypeError", "IndexError"}

RECURSIVE EnqueueLinks(_, _, _, _)
\* the for loop over page_content['links']: append each link that is neither
\* visited nor queued
EnqueueLinks(queue, visited, links, next_depth) ==
    IF links = <<>> THEN queue
    ELSE LET link_url == Head(links)
             queued == { queue[i][1] : i \in DOMAIN queue }
         IN  EnqueueLinks(
                 IF link_url \notin visited /\ link_url \notin queued
                 THEN Append(queue, <<link_url, next_depth>>) ELSE queue,
                 visited, Tail(links), next_depth)

----------------------------------------------------------------------------
(* Activations of crawl() *)

\* the crawl_result dict; `error` says whether the 'error' key is set and
\* `results` names the list object bound to the 'results' key
NoResult ==
    [url |-> NoUrl, depth |-> 0, use_ai |-> FALSE, pages_crawled |-> 0,
     success_pages |-> 0, failed_pages |-> 0, results |-> 0, error |-> FALSE]

\* a call crawl(url, depth, use_ai, ai_model) on crawlers[self] that has not
\* run its first statement; ai_model is TRUE for a model object, FALSE for None
NewCall(self, url, depth, use_ai, ai_model, pc) ==
    [self |-> self, pc |-> pc, url |-> url, depth |-> depth, use_ai |-> use_ai,
     ai_model |-> ai_model, crawl_result |-> NoResult,
     current_url |-> NoUrl, current_depth |-> 0,
     status_code |-> 0, html_content |-> FALSE, exc |-> None,
     \* page_content is <<>> while the name is unbound; it is kept only
     \* where the loop is left by an exception (the next iteration binds it
     \* before reading it)
     page_content |-> <<>>,
     \* history, not program state: the tasks fetched so far, the server's
     \* answer to the request that is being recorded, and what the model's
     \* analyze does for the page on which filter_with_ai was called
     fetched |-> <<>>, response |-> None, analyze |-> None]

IdleCall == NewCall(1, NoUrl, 0, FALSE, FALSE, "idle")

Self(c) == crawlers[calls[c].self]

\* an activation that has ended: its local variables are gone, what it
\* returned (or that it raised) is left
Ended(call, pc, crawl_result) ==
    [NewCall(call.self, call.url, call.depth, call.use_ai, call.ai_model, pc)
        EXCEPT !.crawl_result = crawl_result]

ResetStateKeepsLists(cr, url, results_ref) ==
    [cr EXCEPT !.url_queue = << <<url, 0>> >>]

ResetStateKeepsVisited(cr, url, results_ref) ==
    [cr EXCEPT !.url_queue = << <<url, 0>> >>, !.results = results_ref]

\* crawl(), lines 838-841: a new visited set, a queue holding the seed, a new
\* results list
ResetState(cr, url, results_ref) ==
    [cr EXCEPT !.visited_urls = {},
               !.url_queue = << <<url, 0>> >>,
               !.results = results_ref]

\* crawl(), lines 838-859: reset the instance, build crawl_result, create the
\* browser session if configured
CrawlReset(c) ==
    /\ calls[c].pc = "call"
    /\ LET k == calls[c].self
           results_ref == Len(heap) + 1
           own_ref == Len(heap) + 2
           reset == ResetState(crawlers[k], calls[c].url, results_ref)
       IN  /\ heap' = heap \o << <<>>, <<>> >>
           /\ \E outcome \in InitOutcomes :
                  crawlers' = [crawlers EXCEPT
                      ![k] = IF reset.config.use_selenium
                             THEN initialize_selenium(reset, outcome) ELSE reset]
           /\ calls' = [calls EXCEPT
                  ![c].pc = "loop",
                  ![c].crawl_result =
                      [NoResult EXCEPT !.url = calls[c].url,
                                       !.depth = calls[c].depth,
                                       !.use_ai = calls[c].use_ai,
                                       !.results = own_ref]]
    /\ UNCHANGED <<files, api, par>>

\* crawl(), lines 862-873: the loop condition, the pop, the skip, the
\* bookkeeping of a task taken for fetching
CrawlLoop(c) ==
    /\ calls[c].pc = "loop"
    /\ LET k == calls[c].self
           cr == crawlers[k]
       IN  IF LoopCondition(cr)
           THEN LET current_url == Head(cr.url_queue)[1]
                    current_depth == Head(cr.url_queue)[2]
                IN  IF SkipTask(cr, current_url, current_depth, calls[c].depth)
                    THEN /\ crawlers' = [crawlers EXCEPT
                                ![k].url_queue = PopTask(cr.url_queue)]
                         /\ calls' = [calls EXCEPT
                                ![c].current_url = current_url,
                                ![c].current_depth = current_depth]
                    ELSE /\ crawlers' = [crawlers EXCEPT
                                ![k].url_queue = PopTask(cr.url_queue),
                                ![k].visited_urls = cr.visited_urls \cup {current_url}]
                         /\ calls' = [calls EXCEPT
                                ![c].pc = "fetch",
                                ![c].current_url = current_url,
                                ![c].current_depth = current_depth,
                                ![c].crawl_result.pages_crawled = @ + 1]
           ELSE /\ calls' = [calls EXCEPT ![c].pc = "finish"]
                /\ UNCHANGED crawlers
    /\ UNCHANGED <<files, heap, api, par>>

\* crawl(), line 879: status_code, html_content, error = fetch_page(current_url)
CrawlFetch(c) ==
    /\ calls[c].pc = "fetch"
    /\ \E init \in InitOutcomes, net \in FetchOutcomes :
          LET r == fetch_page(Self(c), init, net)
          IN  /\ crawlers' = [crawlers EXCEPT ![calls[c].self] = r.crawler]
              /\ calls' = [calls EXCEPT
                     ![c].pc = "record",
                     ![c].status_code = r.got.status_code,
                     ![c].html_content = r.got.content,
                     ![c].response = net,
                     ![c].fetched = Append(@, <<calls[c].current_url,
                                                calls[c].current_depth>>)]
    /\ UNCHANGED <<files, heap, api, par>>

\* crawl(), lines 881-929: record the page or the failure, enqueue its links
CrawlRecord(c) ==
    /\ calls[c].pc = "record"
    /\ LET k == calls[c].self
           cr == crawlers[k]
           ref == cr.results
       IN  IF FetchSucceeded(calls[c].status_code, calls[c].html_content)
           THEN \E videos \in VideoLists :
                \E manifest \in ManifestsFor(videos), net \in DownloadsFor(videos),
                   analyze \in AnalyzeFor(calls[c].use_ai, calls[c].ai_model) :
                  LET html == Page(videos, Anchors(calls[c].current_url))
                      extracted == extract_content(cr, calls[c].current_url, html,
                                                   files, manifest, net)
                      filtered ==
                          IF calls[c].use_ai /\ calls[c].ai_model
                          THEN filter_with_ai(extracted.content, calls[c].ai_model,
                                              analyze)
                          ELSE [raised |-> FALSE, content |-> extracted.content]
                      page_content == filtered.content
                  IN  /\ files' = extracted.files
                      /\ IF filtered.raised
                         THEN \* filter_with_ai raised: nothing was appended
                              /\ calls' = [calls EXCEPT
                                     ![c].pc = "except",
                                     ![c].exc = "TypeError",
                                     ![c].response = None,
                                     ![c].analyze = analyze,
                                     ![c].page_content = <<extracted.content>>]
                              /\ UNCHANGED <<heap, crawlers>>
                         ELSE /\ heap' = [heap EXCEPT ![ref] = Append(@, page_content)]
                              /\ IF FollowLinks(cr, calls[c].current_depth, calls[c].depth)
                                 THEN IF IsDict(page_content)
                                      THEN /\ crawlers' = [crawlers EXCEPT
                                                  ![k].url_queue =
                                                      EnqueueLinks(cr.url_queue,
                                                          cr.visited_urls,
                                                          page_content.links,
                                                          calls[c].current_depth + 1)]
                                           /\ calls' = [calls EXCEPT
                                                  ![c].pc = "loop",
                                                  ![c].response = None,
                                                  ![c].crawl_result.success_pages = @ + 1]
                                      ELSE \* page_content.get('links', []) on a list
                                           /\ calls' = [calls EXCEPT
                                                  ![c].pc = "except",
                                                  ![c].exc = "AttributeError",
                                                  ![c].response = None,
                                                  ![c].page_content = <<page_content>>,
                                                  ![c].crawl_result.success_pages = @ + 1]
                                           /\ UNCHANGED crawlers
                                 ELSE /\ calls' = [calls EXCEPT
                                             ![c].pc = "loop",
                                             ![c].response = None,
                                             ![c].crawl_result.success_pages = @ + 1]
                                      /\ UNCHANGED crawlers
           ELSE /\ heap' = [heap EXCEPT
                       ![ref] = Append(@, FailedPage(calls[c].current_url,
                                                     calls[c].status_code))]
                /\ calls' = [calls EXCEPT
                       ![c].pc = "loop",
                       ![c].response = None,
                       ![c].crawl_result.failed_pages = @ + 1]
                /\ UNCHANGED <<crawlers, files>>
    /\ UNCHANGED <<api, par>>

\* crawl(), lines 931-945 and the finally clause: bind the results list,
\* return crawl_result, close the session
CrawlFinish(c) ==
    /\ calls[c].pc = "finish"
    /\ \E quit_ok \in BOOLEAN :
          crawlers' = [crawlers EXCEPT
              ![calls[c].self] = close_selenium(Self(c), quit_ok)]
    /\ calls' = [calls EXCEPT
           ![c] = Ended(@, "returned",
                        [@.crawl_result EXCEPT !.results = Self(c).results])]
    /\ UNCHANGED <<files, heap, api, par>>

\* crawl(), lines 947-952 and the finally clause: an exception the handler
\* catches is recorded as crawl_result['error'] and crawl_result is returned
\* as it stands; any other exception leaves crawl(); the session is closed
CrawlExcept(c) ==
    /\ calls[c].pc = "except"
    /\ \E quit_ok \in BOOLEAN :
          crawlers' = [crawlers EXCEPT
              ![calls[c].self] = close_selenium(Self(c), quit_ok)]
    /\ calls' = IF CrawlCatches(calls[c].exc)
                THEN [calls EXCEPT
                         ![c] = Ended(@, "returned",
                                      [@.crawl_result EXCEPT !.error = TRUE])]
                ELSE [calls EXCEPT ![c] = Ended(@, "raised", @.crawl_result)]
    /\ UNCHANGED <<files, heap, api, par>>

----------------------------------------------------------------------------
(* The caller's thread *)

\* the caller's thread: the call it is in (op) and where (pc), what the call
\* returned (ret) or that it raised, the CrawlResult of the call before
\* (earlier); and, as history, the configuration the constructor was given
\* and the records `earlier` held when it was returned
NewCaller(pc, ncalls, op, config) ==
    [pc |-> pc, ncalls |-> ncalls, op |-> op, ret |-> NoResult, raised |-> FALSE,
     earlier |-> NoResult, earlier_records |-> <<>>, config |-> config]

NoPar ==
    [url |-> NoUrl, depth |-> 0, use_ai |-> FALSE, ai_model |-> FALSE,
     max_workers |-> 0, first_layer_result |-> NoResult,
     second_layer_urls |-> <<>>, gathered |-> {}, parallel_results |-> <<>>,
     \* history, not program state: first_layer_result and its records as
     \* Phase 1 returned them
     phase1_result |-> NoResult, phase1_records |-> <<>>]

\* the futures of the pool
Futures == DOMAIN calls \ {0}

Done(c) == calls[c].pc \in {"returned", "raised"}

Running(c) == calls[c].pc \notin {"idle", "queued", "returned", "raised"}

\* the CrawlResult the caller holds from its last call, if that returned one
EarlierResult == IF api.raised THEN NoResult ELSE api.ret

\* When the caller makes a call, the list objects still referenced are
\* self.results of its instance and the 'results' list of the CrawlResult it
\* holds (the same object after a normal return).  The others are garbage
\* and leave the heap.
LiveHeap ==
    IF EarlierResult.results \in {0, crawlers[1].results}
    THEN << heap[crawlers[1].results] >>
    ELSE << heap[crawlers[1].results], heap[EarlierResult.results] >>

LiveCrawlers == << [crawlers[1] EXCEPT !.results = 1] >>

\* what the caller looks at in the CrawlResult held: its url, its counters,
\* its error and its list, where LiveHeap has put it
LiveEarlier ==
    [EarlierResult EXCEPT
        !.depth = 0, !.use_ai = FALSE,
        !.results = IF @ = 0 THEN 0 ELSE IF @ = crawlers[1].results THEN 1 ELSE 2]

\* the records of the CrawlResult held, as they were when it was returned
LiveEarlierRecords ==
    IF EarlierResult.results = 0 THEN <<>> ELSE heap[EarlierResult.results]

\* the caller calls crawl(url, depth, use_ai, ai_model) on its instance
CallCrawl ==
    /\ api.pc = "idle"
    /\ api.ncalls < MaxCalls
    /\ \E url \in SeedUrls, depth \in Depths, use_ai \in BOOLEAN, ai_model \in BOOLEAN :
          calls' = [calls EXCEPT ![0] = NewCall(1, url, depth, use_ai, ai_model, "call")]
    /\ api' = [api EXCEPT !.pc = "crawl", !.ncalls = @ + 1, !.op = "crawl",
                          !.ret = NoResult, !.raised = FALSE,
                          !.earlier = LiveEarlier,
                          !.earlier_records = LiveEarlierRecords]
    /\ par' = NoPar
    /\ heap' = LiveHeap
    /\ crawlers' = LiveCrawlers
    /\ UNCHANGED files

\* crawl() hands its result, or its exception, to the caller
ReturnCrawl ==
    /\ api.pc = "crawl"
    /\ Done(0)
    /\ api' = [api EXCEPT !.pc = "idle", !.ret = calls[0].crawl_result,
                          !.raised = (calls[0].pc = "raised")]
    /\ calls' = (0 :> IdleCall)
    /\ UNCHANGED <<files, crawlers, heap, par>>

\* crawl_parallel(), line 973: Phase 1 is crawl(url, depth=0, ...) on self
CallCrawlParallel ==
    /\ api.pc = "idle"
    /\ api.ncalls < MaxCalls
    /\ \E url \in SeedUrls, depth \in Depths, use_ai \in BOOLEAN,
          ai_model \in BOOLEAN, max_workers \in 1 .. MaxWorkersBound :
          /\ calls' = [calls EXCEPT ![0] = NewCall(1, url, 0, use_ai, ai_model, "call")]
          /\ par' = [NoPar EXCEPT !.url = url, !.depth = depth, !.use_ai = use_ai,
                                  !.ai_model = ai_model, !.max_workers = max_workers]
    /\ api' = [api EXCEPT !.pc = "phase1", !.ncalls = @ + 1, !.op = "crawl_parallel",
                          !.ret = NoResult, !.raised = FALSE,
                          !.earlier = LiveEarlier,
                          !.earlier_records = LiveEarlierRecords]
    /\ heap' = LiveHeap
    /\ crawlers' = LiveCrawlers
    /\ UNCHANGED files

RECURSIVE AllLinks(_)
\* the links of the pages that have a 'links' key, in order
AllLinks(results) ==
    IF results = <<>> THEN <<>>
    ELSE (IF HasKey(Head(results), "links") THEN Head(results).links ELSE <<>>)
         \o AllLinks(Tail(results))

RECURSIVE TakeUnvisited(_, _, _, _)
\* lines 979-981: keep a link if it is not visited and the list is not full
TakeUnvisited(links, visited, max_pages, acc) ==
    IF links = <<>> THEN acc
    ELSE TakeUnvisited(Tail(links), visited, max_pages,
             IF Head(links) \notin visited /\ Len(acc) < max_pages
             THEN Append(acc, Head(links)) ELSE acc)

\* crawl_parallel(), lines 975-981
SecondLayerUrls(results, visited, max_pages) ==
    TakeUnvisited(AllLinks(results), visited, max_pages, <<>>)

\* crawl_parallel(), lines 975-984: collect the second-layer URLs from the
\* Phase-1 result; with depth <= 0 return it
ParallelCollect ==
    /\ api.pc = "phase1"
    /\ Done(0)
    /\ IF calls[0].pc = "raised"
       THEN /\ api' = [api EXCEPT !.pc = "idle", !.raised = TRUE]
            /\ UNCHANGED par
            /\ calls' = (0 :> IdleCall)
       ELSE LET flr == calls[0].crawl_result
                urls == SecondLayerUrls(heap[flr.results], crawlers[1].visited_urls,
                                        crawlers[1].config.max_pages)
            IN  /\ par' = [par EXCEPT !.first_layer_result = flr,
                                      !.second_layer_urls = urls,
                                      !.phase1_result = flr,
                                      !.phase1_records = heap[flr.results]]
                /\ api' = IF par.depth > 0
                          THEN [api EXCEPT !.pc = "submit"]
                          ELSE [api EXCEPT !.pc = "idle", !.ret = flr]
                /\ calls' = (0 :> IdleCall)
    /\ UNCHANGED <<files, crawlers, heap>>

TempConfigCopy(config) == config

\* the configuration of a temporary crawler: a copy with follow_links off
TempConfig(config) == [config EXCEPT !.follow_links = FALSE]

\* the instance the i-th second-layer URL is given to: temp_crawlers[i % max_workers]
\* (i counts from 0 in the code, futures and crawlers from 1 here; crawlers[1]
\* is the caller's instance, so temp_crawlers[j] is crawlers[j + 2])
CrawlerOfTask(i, max_workers) == ((i - 1) % max_workers) + 2

\* the depth argument of the crawl() calls submitted to the pool
WorkerDepth == 0

\* crawl_parallel(), lines 985-1003: create max_workers temporary crawlers
\* and submit one crawl(url, depth=0, ...) per second-layer URL
ParallelSubmit ==
    /\ api.pc = "submit"
    /\ LET mw == par.max_workers
           urls == par.second_layer_urls
       IN  /\ crawlers' = <<crawlers[1]>> \o
                  [j \in 1 .. mw |->
                      NewCrawler(TempConfig(crawlers[1].config), Len(heap) + j)]
           /\ heap' = heap \o [j \in 1 .. mw |-> <<>>]
           /\ calls' = [i \in 0 .. Len(urls) |->
                  IF i = 0 THEN calls[0]
                  ELSE NewCall(CrawlerOfTask(i, mw), urls[i], WorkerDepth,
                               par.use_ai, par.ai_model, "queued")]
    /\ api' = [api EXCEPT !.pc = "pool"]
    /\ par' = [par EXCEPT !.gathered = {}, !.parallel_results = <<>>]
    /\ UNCHANGED files

\* ThreadPoolExecutor: a pool thread takes the oldest queued task; at most
\* max_workers tasks run at a time
PoolRun(c) ==
    /\ api.pc = "pool"
    /\ c \in Futures
    /\ calls[c].pc = "queued"
    /\ \A d \in Futures : d < c => calls[d].pc # "queued"
    /\ Cardinality({d \in Futures : Running(d)}) < par.max_workers
    /\ calls' = [calls EXCEPT ![c].pc = "call"]
    /\ UNCHANGED <<files, crawlers, heap, api, par>>

\* crawl_parallel(), lines 1006-1015: the body of the as_completed loop for
\* one finished future
ParallelGather(f) ==
    /\ api.pc = "pool"
    /\ f \in Futures \ par.gathered
    /\ Done(f)
    /\ LET result == calls[f].crawl_result
       IN  par' = [par EXCEPT
               !.gathered = @ \cup {f},
               !.parallel_results =
                   IF calls[f].pc = "raised" THEN Append(@, FutureError(calls[f].url))
                   ELSE IF heap[result.results] # <<>> THEN @ \o heap[result.results]
                   ELSE @]
    /\ UNCHANGED <<files, crawlers, heap, calls, api>>

\* the pages of a list that carry, or do not carry, an 'error' key
WithError(pages) == { i \in DOMAIN pages : HasKey(pages[i], "error") }

\* crawl_parallel(), lines 1017-1021: extend the Phase-1 results and counters
MergeResult(flr, parallel_results) ==
    [flr EXCEPT
        !.pages_crawled = @ + Len(parallel_results),
        !.success_pages = @ + (Len(parallel_results)
                               - Cardinality(WithError(parallel_results))),
        !.failed_pages = @ + Cardinality(WithError(parallel_results))]

\* crawl_parallel(), lines 1017-1023: after the pool has shut down, merge and
\* return first_layer_result
ParallelMerge ==
    /\ api.pc = "pool"
    /\ par.gathered = Futures
    /\ LET flr == par.first_layer_result
       IN  /\ heap' = [heap EXCEPT ![flr.results] = @ \o par.parallel_results]
           /\ api' = [api EXCEPT !.pc = "idle",
                                 !.ret = MergeResult(flr, par.parallel_results)]
           /\ par' = [par EXCEPT
                  !.first_layer_result = MergeResult(flr, par.parallel_results)]
    /\ crawlers' = <<crawlers[1]>>
    /\ calls' = (0 :> IdleCall)
    /\ UNCHANGED files

----------------------------------------------------------------------------
(* Specification Spec: a caller makes up to MaxCalls calls of crawl() and  *)
(* crawl_parallel() on one instance.                                       *)

Init ==
    /\ \E config \in Configs :
           /\ crawlers = << NewCrawler(config, 1) >>
           /\ api = NewCaller("idle", 0, None, config)
    /\ files = {}
    /\ heap = << <<>> >>
    /\ calls = (0 :> IdleCall)
    /\ par = NoPar

Next ==
    \/ CallCrawl
    \/ ReturnCrawl
    \/ CallCrawlParallel
    \/ ParallelCollect
    \/ ParallelSubmit
    \/ ParallelMerge
    \/ \E c \in DOMAIN calls : CrawlReset(c)
    \/ \E c \in DOMAIN calls : CrawlLoop(c)
    \/ \E c \in DOMAIN calls : CrawlFetch(c)
    \/ \E c \in DOMAIN calls : CrawlRecord(c)
    \/ \E c \in DOMAIN calls : CrawlFinish(c)
    \/ \E c \in DOMAIN calls : CrawlExcept(c)

Spec == Init /\ [][Next]_vars

----------------------------------------------------------------------------
(* Specification SpecCrawl: one call of crawl() on a new instance, for     *)
(* every configuration and every argument, run by a thread that keeps      *)
(* running: a step of crawl() that can be taken is taken (every request    *)
(* has a timeout, the delay between pages is finite).                      *)

InitCrawl ==
    /\ \E config \in Configs, url \in SeedUrls, depth \in Depths,
          use_ai \in BOOLEAN, ai_model \in BOOLEAN :
           /\ crawlers = << NewCrawler(config, 1) >>
           /\ api = NewCaller("crawl", 1, "crawl", config)
           /\ calls = (0 :> NewCall(1, url, depth, use_ai, ai_model, "call"))
    /\ files = {}
    /\ heap = << <<>> >>
    /\ par = NoPar

NextCrawl ==
    \/ CrawlReset(0)
    \/ CrawlLoop(0)
    \/ CrawlFetch(0)
    \/ CrawlRecord(0)
    \/ CrawlFinish(0)
    \/ CrawlExcept(0)
    \/ ReturnCrawl

SpecCrawl == InitCrawl /\ [][NextCrawl]_vars /\ WF_vars(NextCrawl)

----------------------------------------------------------------------------
(* Specification SpecPhase2: Phase 2 of crawl_parallel() (lines 984-1023)  *)
(* for every list of second-layer URLs, every max_workers >= 1 and every   *)
(* schedule of the pool threads.  It starts where Phase 1 has returned the *)
(* seed page and lines 975-981 have built second_layer_urls.               *)

SeedUrl == Url(<<"/", "p">>, "")

\* the lists of second-layer URLs: the first 1 to MaxUrls links of a seed page
\* that links to /q, /r, /q, /r, ... (the code does not drop a repeated link)
SeedLinks(n) ==
    [i \in 1 .. n |-> IF i % 2 = 1 THEN Url(<<"/", "q">>, "") ELSE Url(<<"/", "r">>, "")]

UrlLists == { SeedLinks(n) : n \in 1 .. MaxUrls }

\* the result of Phase 1, crawl(seed, depth=0, ...), for a seed page that was
\* fetched: the page's record, or the caught-exception result when an AI
\* model is supplied
FirstLayerResult(use_ai, ai_model) ==
    IF use_ai /\ ai_model
    THEN [NoResult EXCEPT !.url = SeedUrl, !.use_ai = use_ai, !.pages_crawled = 1,
                          !.results = 2, !.error = TRUE]
    ELSE [NoResult EXCEPT !.url = SeedUrl, !.use_ai = use_ai, !.pages_crawled = 1,
                          !.success_pages = 1, !.results = 1]

InitPhase2 ==
    \E urls \in UrlLists, use_selenium \in BOOLEAN, follow_links \in {TRUE},
       max_workers \in 1 .. MaxWorkersBound, use_ai \in BOOLEAN, ai_model \in {TRUE} :
       /\ crawlers = << [NewCrawler([use_selenium |-> use_selenium,
                                      follow_links |-> follow_links,
                                      max_pages |-> Len(urls),
                                      download_videos |-> FALSE,
                                      allow_domains |-> <<>>,
                                      deny_domains |-> <<>>], 1)
                             EXCEPT !.visited_urls = {SeedUrl}] >>
       /\ heap = << IF use_ai /\ ai_model THEN <<>> ELSE << VideoList(<<>>) >>, <<>> >>
       /\ files = {}
       /\ calls = (0 :> IdleCall)
       /\ api = NewCaller("submit", 1, "crawl_parallel",
                          [use_selenium |-> use_selenium,
                           follow_links |-> follow_links,
                           max_pages |-> Len(urls),
                           download_videos |-> FALSE,
                           allow_domains |-> <<>>,
                           deny_domains |-> <<>>])
       /\ par = [NoPar EXCEPT !.url = SeedUrl, !.depth = 1, !.use_ai = use_ai,
                              !.ai_model = ai_model, !.max_workers = max_workers,
                              !.first_layer_result = FirstLayerResult(use_ai, ai_model),
                              !.second_layer_urls = urls,
                              !.phase1_result = FirstLayerResult(use_ai, ai_model),
                              !.phase1_records =
                                  IF use_ai /\ ai_model THEN <<>>
                                  ELSE << VideoList(<<>>) >>]

NextPhase2 ==
    \/ ParallelSubmit
    \/ \E c \in Futures : PoolRun(c)
    \/ \E c \in Futures : CrawlReset(c)
    \/ \E c \in Futures : CrawlLoop(c)
    \/ \E c \in Futures : CrawlFetch(c)
    \/ \E c \in Futures : CrawlRecord(c)
    \/ \E c \in Futures : CrawlFinish(c)
    \/ \E c \in Futures : CrawlExcept(c)
    \/ \E f \in Futures : ParallelGather(f)
    \/ ParallelMerge

SpecPhase2 == InitPhase2 /\ [][NextPhase2]_vars

----------------------------------------------------------------------------
(* Specification SpecCollect: lines 975-984 of crawl_parallel() for every  *)
(* list of links a Phase-1 page record can carry.  It starts where Phase 1 *)
(* (line 973) has returned the seed page's record.                         *)

MaxLinks == 3

\* a page record that has a 'links' key, as lines 977-978 read it; a link
\* stands for its link['url']
PageWithLinks(links) ==
    [kind |-> "dict", keys |-> {"url", "links"}, url |-> SeedUrl,
     status_code |-> 200, items |-> <<>>, links |-> links, ai_analysis |-> None]

\* the links of the seed page: up to MaxLinks links, each to the seed itself
\* or to one of two other pages, in any order and with repetitions
LinkTargets == {SeedUrl, Url(<<"/", "q">>, ""), Url(<<"/", "r">>, "")}

LinkLists == UNION { [1 .. n -> LinkTargets] : n \in 0 .. MaxLinks }

InitCollect ==
    \E links \in LinkLists, max_pages \in 1 .. MaxPagesBound, depth \in 0 .. MaxDepthBound :
       LET config == [use_selenium |-> FALSE, follow_links |-> TRUE,
                      max_pages |-> max_pages, download_videos |-> TRUE,
                      allow_domains |-> <<>>, deny_domains |-> <<>>]
       IN  /\ crawlers = << [NewCrawler(config, 1) EXCEPT !.visited_urls = {SeedUrl}] >>
           /\ heap = << << PageWithLinks(links) >> >>
           /\ files = {}
           /\ calls = (0 :> Ended(NewCall(1, SeedUrl, 0, FALSE, FALSE, "call"),
                                  "returned", FirstLayerResult(FALSE, FALSE)))
           /\ api = NewCaller("phase1", 1, "crawl_parallel", config)
           /\ par = [NoPar EXCEPT !.url = SeedUrl, !.depth = depth, !.max_workers = 1]

NextCollect == ParallelCollect

SpecCollect == InitCollect /\ [][NextCollect]_vars

----------------------------------------------------------------------------
(* Specification SpecLib: a caller uses the helper methods of an instance   *)
(* directly: is_valid_url, normalize_url, download_image, download_video.   *)
(* Each call runs on the caller's thread from start to end.                 *)

MaxLibCalls == 2       \* calls made by the caller
MaxPathLen == 3        \* longest URL path, in characters

ExampleCom == <<"e", "x", "a", "m", "p", "l", "e", ".", "c", "o", "m">>
OtherOrg == <<"o", "t", "h", "e", "r", ".", "o", "r", "g">>
BadExampleCom == <<"b", "a", "d", ".">> \o ExampleCom
SubExampleCom == <<"s", "u", "b", ".">> \o ExampleCom
NotExampleCom == <<"n", "o", "t">> \o ExampleCom

\* Python: s.endswith(suffix)
EndsWith(s, suffix) ==
    /\ Len(suffix) <= Len(s)
    /\ SubSeq(s, Len(s) - Len(suffix) + 1, Len(s)) = suffix

IsValidUrlNoDomains(cr, url) == url.scheme # "" /\ url.netloc # <<>>

\* is_valid_url: a scheme and a netloc; the netloc ends with an allowed
\* domain if any is configured, and with no denied domain
is_valid_url(cr, url) ==
    LET domain == url.netloc
        allow_domains == cr.config.allow_domains
        deny_domains == cr.config.deny_domains
    IN  /\ url.scheme # "" /\ url.netloc # <<>>
        /\ allow_domains # <<>> =>
               \E i \in DOMAIN allow_domains : EndsWith(domain, allow_domains[i])
        /\ deny_domains # <<>> =>
               ~ \E i \in DOMAIN deny_domains : EndsWith(domain, deny_domains[i])

\* configurations: no domain policy, an allow list, an allow and a deny list
LibConfigs ==
    { [use_selenium |-> FALSE, follow_links |-> TRUE, max_pages |-> MaxPagesBound,
       download_videos |-> TRUE, allow_domains |-> policy[1],
       deny_domains |-> policy[2]] :
      policy \in { << <<>>, <<>> >>, << <<ExampleCom>>, <<>> >>,
                   << <<ExampleCom>>, <<BadExampleCom>> >> } }

\* links a page may carry: to the five hosts, and one without a host
LinkUrls ==
    { [scheme |-> IF netloc = <<>> THEN "" ELSE "http", netloc |-> netloc,
       path |-> <<"/", "p">>, fragment |-> ""] :
      netloc \in {ExampleCom, OtherOrg, BadExampleCom, SubExampleCom,
                   NotExampleCom, <<>>} }

Paths == UNION { [1 .. n -> {"/", "p"}] : n \in 0 .. MaxPathLen }

\* URLs as urlparse gives them: absolute ones, whose path is empty or starts
\* with "/", and relative ones, whose path does not start with "//" (that
\* text would be parsed as a netloc)
UrlInputs ==
    { u \in [scheme : {"http"}, netloc : {<<"a">>}, path : Paths, fragment : {"", "f"}] :
          u.path = <<>> \/ u.path[1] = "/" }
    \cup
    { u \in [scheme : {""}, netloc : {<<>>}, path : Paths, fragment : {"", "f"}] :
          ~(Len(u.path) >= 2 /\ u.path[1] = "/" /\ u.path[2] = "/") }

BaseUrls == { Url(<<>>, ""), Url(<<"/", "p">>, ""), Url(<<"/", "p", "/">>, "") }

\* media URLs: a direct video, a segmented one, a picture, and one whose
\* extension is longer than 5 characters
MediaUrls ==
    { MediaUrl("v", Mp4), MediaUrl("v", M3u8), MediaUrl("i", Jpg),
      MediaUrl("i", Jpeg2000) }

\* the caller's thread: the call made last (op, args), what it returned,
\* whether it used the network, and the call before it; and, as history, the
\* manifest the server gave that call, what the call wrote to its output
\* file, and the local files that hold a completely transferred body
NoLibCall == [op |-> None, args |-> <<>>, ret |-> FALSE, written |-> <<>>]

Called(op, args, ret, network) ==
    [pc |-> "idle", ncalls |-> api.ncalls + 1, op |-> op, args |-> args,
     ret |-> ret, network |-> network,
     earlier |-> [op |-> api.op, args |-> api.args, ret |-> api.ret,
                  written |-> api.written],
     manifest |-> NoSegments, written |-> <<>>, completed |-> api.completed]

CallIsValidUrl ==
    /\ api.ncalls < MaxLibCalls
    /\ \E url \in LinkUrls :
          api' = Called("is_valid_url", <<url>>, is_valid_url(crawlers[1], url), FALSE)
    /\ UNCHANGED <<crawlers, files, heap, calls, par>>

CallNormalizeUrl ==
    /\ api.ncalls < MaxLibCalls
    /\ \E url \in UrlInputs, base_url \in BaseUrls :
          api' = Called("normalize_url", <<url, base_url>>,
                        normalize_url(url, base_url), FALSE)
    /\ UNCHANGED <<crawlers, files, heap, calls, par>>

\* the caller normalizes what normalize_url has just returned, with the same
\* base
CallNormalizeUrlAgain ==
    /\ api.ncalls < MaxLibCalls
    /\ api.op = "normalize_url"
    /\ api' = Called("normalize_url", <<api.ret, api.args[2]>>,
                     normalize_url(api.ret, api.args[2]), FALSE)
    /\ UNCHANGED <<crawlers, files, heap, calls, par>>

CallDownloadImage ==
    /\ api.ncalls < MaxLibCalls
    /\ \E img_url \in MediaUrls, net \in DownloadOutcomes :
          LET got == download_image(files, img_url, net)
          IN  /\ api' = Called("download_image", <<img_url>>, got.path, got.network)
              /\ files' = got.files
    /\ UNCHANGED <<crawlers, heap, calls, par>>

CallDownloadVideo ==
    /\ api.ncalls < MaxLibCalls
    /\ \E video_url \in MediaUrls :
       \E manifest \in ManifestsFor(<<video_url>>), net \in DownloadOutcomes :
          LET got == download_video(files, video_url, manifest, net)
          IN  /\ api' = [Called("download_video", <<video_url>>, got.path, got.network)
                            EXCEPT !.manifest = manifest,
                                   !.written = got.written,
                                   !.completed =
                                       IF got.complete THEN @ \cup {got.path} ELSE @]
              /\ files' = got.files
    /\ UNCHANGED <<crawlers, heap, calls, par>>

InitLib ==
    /\ \E config \in LibConfigs : crawlers = << NewCrawler(config, 1) >>
    /\ files = {}
    /\ heap = << <<>> >>
    /\ calls = (0 :> IdleCall)
    /\ api = [pc |-> "idle", ncalls |-> 0, op |-> None, args |-> <<>>,
              ret |-> FALSE, network |-> FALSE, earlier |-> NoLibCall,
              manifest |-> NoSegments, written |-> <<>>, completed |-> {}]
    /\ par = NoPar

NextLib ==
    \/ CallIsValidUrl
    \/ CallNormalizeUrl
    \/ CallNormalizeUrlAgain
    \/ CallDownloadImage
    \/ CallDownloadVideo

SpecLib == InitLib /\ [][NextLib]_vars

----------------------------------------------------------------------------
(* Properties *)

\* the CrawlResults handed back so far: by an activation that has returned
\* and to the caller
ReturnedResults ==
    { calls[c].crawl_result : c \in { d \in DOMAIN calls : calls[d].pc = "returned" } }
    \cup (IF api.pc = "idle" /\ api.ncalls > 0 /\ ~api.raised THEN {api.ret} ELSE {})

Range(seq) == { seq[i] : i \in DOMAIN seq }

Canonical(u) == normalize_url(u, u)

\* C1: every CrawlResult returned by crawl() or crawl_parallel(), on the
\* normal and on the caught-exception path, has
\* pages_crawled = success_pages + failed_pages.
C1_PageAccounting ==
    \A r \in ReturnedResults : r.pages_crawled = r.success_pages + r.failed_pages

C4_DepthBound ==
    \A c \in DOMAIN calls :
        \A i \in DOMAIN calls[c].fetched :
            /\ 0 <= calls[c].fetched[i][2]
            /\ calls[c].fetched[i][2] <= calls[c].depth

\* a page has been fetched at the largest depth the call allows
C4_Witness ==
    \E c \in DOMAIN calls :
        /\ calls[c].pc = "record"
        /\ calls[c].fetched # <<>>
        /\ calls[c].fetched[1][2] = calls[c].depth

\* C5: within one crawl() call the visited set holds a URL in its canonical
\* form only (so that URLs with the same canonical form are one member), and
\* no canonical URL is fetched twice; this includes the seed.
C5_CanonicalOnce ==
    /\ \A k \in DOMAIN crawlers :
           \A u \in crawlers[k].visited_urls : Canonical(u) = u
    /\ \A c \in DOMAIN calls :
           \A i, j \in DOMAIN calls[c].fetched :
               Canonical(calls[c].fetched[i][1]) = Canonical(calls[c].fetched[j][1])
                   => i = j

\* C6: a task is taken for fetching only while fewer than max_pages URLs are
\* visited, so one crawl() call takes at most max_pages tasks (none when
\* max_pages <= 0).
C6_MaxPages ==
    /\ \A c \in DOMAIN calls :
           LET max_pages == Self(c).config.max_pages
           IN  /\ calls[c].crawl_result.pages_crawled
                      <= (IF max_pages > 0 THEN max_pages ELSE 0)
               /\ Len(calls[c].fetched) <= calls[c].crawl_result.pages_crawled
               /\ calls[c].pc \in {"fetch", "record"}
                      => Cardinality(Self(c).visited_urls) <= max_pages
    /\ \A r \in ReturnedResults :
           r.pages_crawled <= (IF crawlers[1].config.max_pages > 0
                               THEN crawlers[1].config.max_pages ELSE 0)

\* a call has fetched as many pages as max_pages allows
C6_Witness ==
    \E c \in DOMAIN calls :
        /\ calls[c].pc = "record"
        /\ Len(calls[c].fetched) = Self(c).config.max_pages

\* C7: crawl() and crawl_parallel() return a CrawlResult and never let an
\* exception reach the caller, whatever the fetches, the extraction and the
\* AI calls do.
C7_NoException ==
    /\ ~api.raised
    /\ \A c \in DOMAIN calls : calls[c].pc # "raised"

\* an exception ended the loop and the caller still got a CrawlResult
C7_Witness ==
    api.pc = "idle" /\ api.ncalls > 0 /\ api.ret.error /\ ~api.raised

\* C8: a CrawlResult returned with an error field holds in its results list
\* every record accumulated before the exception.
C8_PartialResults ==
    \A c \in DOMAIN calls :
        (calls[c].pc = "returned" /\ calls[c].crawl_result.error) =>
            heap[calls[c].crawl_result.results] = heap[Self(c).results]

\* C9: whenever crawl() returns, the instance holds no browser session
\* (driver is None), also when closing the session reported an error.
C9_SessionReleased ==
    \A c \in DOMAIN calls : calls[c].pc = "returned" => Self(c).driver = None

\* C10: crawl_parallel fetches only the seed and links listed on the seed
\* page: Phase 1 and every pool call run crawl(url, depth=0), and the pool
\* calls run on temporary instances whose follow_links is off.
C10_SecondLayerOnly ==
    (api.op = "crawl_parallel" /\ api.pc # "idle") =>
        /\ \A c \in DOMAIN calls :
               /\ calls[c].pc # "idle" => calls[c].depth = 0
               /\ \A i \in DOMAIN calls[c].fetched :
                      calls[c].fetched[i][1]
                          \in {par.url} \cup Range(par.second_layer_urls)
        /\ \A c \in Futures : calls[c].self >= 2
        /\ \A k \in 2 .. Len(crawlers) : ~crawlers[k].config.follow_links

\* crawl_parallel was called with depth >= 1 on an instance that follows
\* links, Phase 1 fetched the seed and the temporary crawlers exist
C10_Witness ==
    /\ api.op = "crawl_parallel"
    /\ api.pc = "pool"
    /\ par.depth >= 1
    /\ crawlers[1].config.follow_links
    /\ par.phase1_result.pages_crawled = 1
    /\ Len(crawlers) > 1

\* C11: when the seed page is fetched and carries 3 anchors, crawl(seed,
\* depth=1) with follow_links on and max_pages >= 1 queues the three links at
\* depth 1 and leaves its loop normally, with 1 + min(3, max_pages - 1)
\* records and no error.
C11_ScenarioB ==
    \A c \in DOMAIN calls :
        LET cr == Self(c)
            records == heap[cr.results]
            max_pages == cr.config.max_pages
            more == IF max_pages - 1 < 3 THEN max_pages - 1 ELSE 3
        IN  (/\ calls[c].pc \in {"loop", "finish", "except"}
             /\ calls[c].depth = 1
             /\ cr.config.follow_links
             /\ max_pages >= 1
             /\ Len(Anchors(calls[c].url)) = 3
             /\ records # <<>>
             /\ ~HasKey(records[1], "error"))
            =>  /\ calls[c].pc # "except"
                /\ (calls[c].pc = "loop" /\ Len(records) = 1) =>
                       cr.url_queue = [i \in 1 .. 3 |->
                                          <<Anchors(calls[c].url)[i], 1>>]
                /\ calls[c].pc = "finish" => Len(records) = 1 + more

\* C12: when analyze raises for a fetched page (use_ai on, a model supplied),
\* the crawl does not end: the page is recorded with ai_analysis status
\* "error" and counted in success_pages.
C12_AiErrorRecorded ==
    \A c \in DOMAIN calls :
        calls[c].analyze = "raises" =>
            LET records == heap[Self(c).results]
            IN  /\ calls[c].pc # "except"
                /\ calls[c].crawl_result.success_pages >= 1
                /\ records # <<>>
                /\ records[Len(records)].ai_analysis = "error"

\* C13: with use_ai on and no model (ai_model is None), every record of a
\* fetched page carries ai_analysis with status "skipped".
C13_AiSkippedRecorded ==
    \A c \in DOMAIN calls :
        (calls[c].pc # "idle" /\ calls[c].use_ai /\ ~calls[c].ai_model) =>
            \A r \in Range(heap[Self(c).results]) :
                ~HasKey(r, "error") => r.ai_analysis = "skipped"

\* C14: the configuration of the caller's instance stays what it was when
\* the constructor returned.
C14_ConfigReadOnly == crawlers[1].config = api.config

\* C15: a crawl() call starts from an empty visited set, a queue holding only
\* (seed, 0) and an empty results list, so it fetches its seed whatever was
\* visited before; and the records of the CrawlResult returned by the call
\* before stay what they were.
C15_FreshState ==
    /\ api.earlier.results # 0 =>
           heap[api.earlier.results] = api.earlier_records
    /\ \A c \in DOMAIN calls :
           LET cr == Self(c)
           IN  /\ (calls[c].pc = "loop" /\ calls[c].crawl_result.pages_crawled = 0) =>
                      /\ cr.visited_urls = {}
                      /\ heap[cr.results] = <<>>
                      /\ cr.url_queue \in { << <<calls[c].url, 0>> >>, <<>> }
               /\ (calls[c].pc = "finish" /\ calls[c].depth >= 0
                       /\ cr.config.max_pages >= 1) =>
                      /\ calls[c].fetched # <<>>
                      /\ calls[c].fetched[1][1] = calls[c].url

\* a second call has fetched the URL the call before had fetched and
\* recorded, and has a record of its own
C15_Witness ==
    /\ api.ncalls = 2
    /\ api.earlier.url = calls[0].url
    /\ api.earlier.pages_crawled >= 1
    /\ api.earlier_records # <<>>
    /\ calls[0].pc = "finish"
    /\ calls[0].fetched # <<>>
    /\ heap[crawlers[1].results] # <<>>

\* C16: a page the server answers with an HTTP 4xx/5xx status comes back from
\* fetch_page as a failure (status other than 200, or no content), in both
\* fetch strategies, so that crawl() records it as a failed page.
C16_HttpErrorIsFailure ==
    \A c \in DOMAIN calls :
        (calls[c].pc = "record" /\ calls[c].response = "http_error") =>
            ~(calls[c].status_code = 200 /\ calls[c].html_content)

\* a video entry whose download returned None
DownloadFailed(content) ==
    \E i \in DOMAIN content.items : content.items[i].path = NoPath

\* C18: when the download of a page's video fails, the entry is kept with
\* path None and the page is recorded as a success.
C18_MediaFailureKeepsPage ==
    \A c \in DOMAIN calls :
        \A i \in DOMAIN calls[c].page_content :
            (Self(c).config.download_videos /\ DownloadFailed(calls[c].page_content[i])) =>
                /\ calls[c].page_content[i] \in Range(heap[Self(c).results])
                /\ calls[c].crawl_result.success_pages >= 1

C19_DownloadIdempotent ==
    (/\ api.op \in {"download_image", "download_video"}
     /\ api.earlier.op = api.op
     /\ api.earlier.args = api.args) =>
        /\ api.earlier.ret # NoPath => (api.ret = api.earlier.ret /\ ~api.network)
        /\ ~api.network => api.ret = api.earlier.ret

\* C20: normalizing the result of normalize_url again, with the same base,
\* gives the same URL.
C20_NormalizeIdempotent ==
    (/\ api.op = "normalize_url"
     /\ api.earlier.op = "normalize_url"
     /\ api.args = <<api.earlier.ret, api.earlier.args[2]>>) =>
        api.ret = api.earlier.ret

C23_SuccessStep ==
    [][\A c \in DOMAIN calls \cap DOMAIN calls' :
          (/\ calls[c].pc = "record"
           /\ calls'[c].pc # "record"
           /\ calls[c].status_code = 200 /\ calls[c].html_content
           /\ ~(calls[c].use_ai /\ calls[c].ai_model)) =>
              LET k == calls[c].self
                  ref == crawlers[k].results
                  d == calls[c].current_depth
              IN  /\ Len(heap'[ref]) = Len(heap[ref]) + 1
                  /\ crawlers'[k].url_queue =
                         IF crawlers[k].config.follow_links /\ d < calls[c].depth
                         THEN EnqueueLinks(crawlers[k].url_queue,
                                           crawlers[k].visited_urls,
                                           Anchors(calls[c].current_url), d + 1)
                         ELSE crawlers[k].url_queue]_vars

\* C24: the step of crawl() that handles a failed fetch (fetch_page returned
\* a status other than 200, or no content) appends exactly one record
\* {url, status_code, error} for the task to the results list, adds one to
\* failed_pages, leaves success_pages and the queue unchanged and goes on
\* with the loop; and no URL is fetched twice in one crawl() call.
C24_FailureStep ==
    /\ [](\A c \in DOMAIN calls :
             \A i, j \in DOMAIN calls[c].fetched :
                 i # j => calls[c].fetched[i][1] # calls[c].fetched[j][1])
    /\ [][\A c \in DOMAIN calls \cap DOMAIN calls' :
             (/\ calls[c].pc = "record"
              /\ calls'[c].pc # "record"
              /\ ~(calls[c].status_code = 200 /\ calls[c].html_content)) =>
                 LET k == calls[c].self
                     ref == crawlers[k].results
                     added == heap'[ref][Len(heap'[ref])]
                 IN  /\ Len(heap'[ref]) = Len(heap[ref]) + 1
                     /\ SubSeq(heap'[ref], 1, Len(heap[ref])) = heap[ref]
                     /\ added.kind = "dict"
                     /\ added.keys = {"url", "status_code", "error"}
                     /\ added.url = calls[c].current_url
                     /\ added.status_code = calls[c].status_code
                     /\ calls'[c].crawl_result.failed_pages =
                            calls[c].crawl_result.failed_pages + 1
                     /\ calls'[c].crawl_result.success_pages =
                            calls[c].crawl_result.success_pages
                     /\ calls'[c].crawl_result.pages_crawled =
                            calls[c].crawl_result.pages_crawled
                     /\ crawlers'[k].url_queue = crawlers[k].url_queue
                     /\ calls'[c].pc = "loop"]_vars

\* a crawl() call has recorded the failure of its task, gone on with the loop
\* and left it
C24_Witness ==
    \E c \in DOMAIN calls :
        /\ calls[c].pc = "finish"
        /\ Len(calls[c].fetched) = 1
        /\ calls[c].crawl_result.failed_pages = 1
        /\ calls[c].crawl_result.success_pages = 0
        /\ Len(heap[Self(c).results]) = 1
        /\ HasKey(heap[Self(c).results][1], "error")

\* C25: once webdriver.Chrome(...) has raised on an instance, it is not called
\* again on that instance, the instance has no session, its configuration
\* selects the requests path, and a fetch on it is a requests fetch (an HTTP
\* error answer comes back as a status other than 200), in the same and in
\* later crawl() calls.
C25_NoSessionAfterFailure ==
    \A k \in DOMAIN crawlers :
        crawlers[k].init_failed =>
            /\ ~crawlers[k].retried
            /\ crawlers[k].driver = None
            /\ ~crawlers[k].config.use_selenium
            /\ \A c \in DOMAIN calls :
                   (/\ calls[c].self = k /\ calls[c].pc = "record"
                    /\ calls[c].response = "http_error") =>
                       calls[c].status_code # 200

\* the second crawl() call on an instance whose session could not be created
\* in the first call has fetched a page that answered with an HTTP error
C25_Witness ==
    /\ api.ncalls = 2
    /\ api.config.use_selenium
    /\ api.earlier.pages_crawled >= 1
    /\ crawlers[1].init_failed
    /\ calls[0].pc = "record"
    /\ calls[0].response = "http_error"

\* C26: a download_video call for an m3u8 URL that has no local file yet and
\* whose manifest lists at least one segment returns the path of the output
\* file, which exists; what it wrote to that file is, in manifest order, every
\* segment whose download succeeded (and the first part of every segment
\* whose stream broke), whatever happened to the segments before it.
C26_SegmentsBestEffort ==
    (/\ api.op = "download_video"
     /\ api.args[1].ext = M3u8
     /\ api.network
     /\ api.manifest.ok /\ api.manifest.segments # <<>>) =>
        LET segments == api.manifest.segments
            written == api.written
        IN  /\ api.ret = LocalPath("videos", md5(api.args[1]), Mp4)
            /\ api.ret \in files
            /\ \A m, n \in DOMAIN written : m < n => written[m][1] < written[n][1]
            /\ \A i \in DOMAIN segments :
                   /\ segments[i] = "ok" <=> <<i, "whole">> \in Range(written)
                   /\ segments[i] = "broken" <=> <<i, "part">> \in Range(written)

\* the first segment was refused, the second one was written, and the call
\* returned the path
C26_Witness ==
    /\ api.op = "download_video"
    /\ api.args[1].ext = M3u8
    /\ api.manifest.ok
    /\ api.manifest.segments = <<"refused", "ok">>
    /\ api.written = << <<2, "whole">> >>
    /\ api.ret \in files

\* C29: with a non-empty allow_domains, is_valid_url returns True only for a
\* URL whose host is an allowed domain or ends with "." followed by one.
C29_DotSuffixMatch ==
    (/\ api.op = "is_valid_url"
     /\ crawlers[1].config.allow_domains # <<>>
     /\ api.ret = TRUE) =>
        LET host == api.args[1].netloc
            allow_domains == crawlers[1].config.allow_domains
        IN  \E i \in DOMAIN allow_domains :
                \/ host = allow_domains[i]
                \/ EndsWith(host, <<".">> \o allow_domains[i])

\* C30: a download_video call for a direct-file URL returns a path only if
\* the file at that path holds a completely transferred body, from this call
\* or an earlier one; and the call after one that broke part-way and returned
\* None, for the same URL, uses the network again.
C30_PathMeansComplete ==
    (api.op = "download_video" /\ api.args[1].ext # M3u8) =>
        /\ api.ret # NoPath => api.ret \in api.completed
        /\ (/\ api.earlier.op = "download_video"
            /\ api.earlier.args = api.args
            /\ api.earlier.ret = NoPath
            /\ api.earlier.written # <<>>) => api.network

\* C27: every call of crawl() comes to an end and hands a CrawlResult to its
\* caller, whatever the configuration (max_pages included), the depth and the
\* answers of the servers.
C27_CrawlTerminates ==
    <>(/\ api.pc = "idle"
       /\ ~api.raised
       /\ api.ret # NoResult)

\* crawl() has returned after the queue ran empty: one page crawled, no error
C27_Witness ==
    /\ api.pc = "idle"
    /\ api.op = "crawl"
    /\ ~api.raised
    /\ api.ret.pages_crawled = 1
    /\ ~api.ret.error
    /\ crawlers[1].url_queue = <<>>

\* C28: whenever a crawl() call with depth >= 0 is at its loop condition, the
\* queue of its instance holds no URL twice, no URL of the visited set and no
\* task deeper than the requested depth; and no task it popped was skipped
\* (the task popped last has been fetched).
C28_QueueInvariant ==
    \A c \in DOMAIN calls :
        (calls[c].pc = "loop" /\ calls[c].depth >= 0) =>
            LET queue == Self(c).url_queue
            IN  /\ \A i, j \in DOMAIN queue : i # j => queue[i][1] # queue[j][1]
                /\ \A i \in DOMAIN queue :
                       /\ queue[i][1] \notin Self(c).visited_urls
                       /\ queue[i][2] <= calls[c].depth
                /\ calls[c].current_url # NoUrl =>
                       <<calls[c].current_url, calls[c].current_depth>>
                           \in Range(calls[c].fetched)

\* a second crawl() call for the seed the first call has crawled is at its
\* loop condition with the seed queued
C28_Witness ==
    /\ api.ncalls = 2
    /\ api.op = "crawl"
    /\ api.earlier.url = calls[0].url
    /\ api.earlier.pages_crawled = 1
    /\ calls[0].pc = "loop"
    /\ calls[0].depth >= 0
    /\ Self(0).url_queue = << <<calls[0].url, 0>> >>

====
